---- MODULE Spec2Model ----
(***************************************************************************)
(* Streaming engine of table-faker (src/tablefaker/streaming_server.py):  *)
(* the CycleBarrier, the per-table StreamingTableGenerator and the        *)
(* StreamingServer lifecycle.                                             *)
(*                                                                         *)
(* Two specifications share the barrier operators:                        *)
(*   BarrierSpec  the barrier driven by the threads of                    *)
(*                src/tests/test_postprocess.py (N threads, K calls each) *)
(*   Spec         the server: startup sequence, streaming workers,        *)
(*                post-process executor, signals and stop.                *)
(***************************************************************************)
EXTENDS Naturals, Integers, Sequences, FiniteSets, TLC

(* ---- bounds ---------------------------------------------------------- *)
\* largest cohort the test threads form (test_basic_synchronization uses 3)
MaxThreads == 3
\* wait() calls each test thread makes (range(3) in test_multiple_cycles)
MaxCycles == 2
\* foreign_key / copy_from_fk calls in one column's data expression
MaxCalls == 2
\* run_loop iterations the streaming workers may begin, all together
MaxTicks == 3
\* rows a table holds in the store when the server starts on existing data
MaxExisting == 1
\* exceptions injected into generate_table, write_deltalake and the store read
MaxFailures == 1
\* largest primary key of a stored row when warm-up is checked on its own
MaxStoredId == 3

VARIABLES
    barrier,      \* CycleBarrier: [num_threads, counter, cycle_number]
    hpc,          \* test thread -> position inside wait()
    calls,        \* test thread -> number of wait() calls it has entered
    results,      \* test thread -> the values its wait() calls returned
    timed_out,    \* history: a test thread's condition.wait(timeout) has timed out
    \* ---- the server
    config,             \* the loaded YAML: [tables: config order, t: name -> table]
    generators,         \* StreamingServer.generators (ordered table names)
    store,              \* table -> [exists: directory exists, rows: rows of the table]
    primary_key_cache,  \* TableFaker.primary_key_cache: table -> list of PK values
    parent_rows,        \* TableFaker.parent_rows: table -> (PK value -> row)
    current_row_id,     \* generator.current_row_id
    rows_per_tick,      \* generator.rows_per_tick
    running,            \* generator.running
    thread,             \* generator.thread is not None
    cycle_barrier,      \* generator.cycle_barrier is not None
    server_running,     \* StreamingServer.running
    mpc, mi,            \* main thread: position in start() and its loop index
    pc,                 \* worker thread of a table: position in run_loop
    ppi,                \* worker thread: index into postprocess_tables
    pp_orig,            \* worker thread: original_rows_per_tick of the executor
    df,                 \* generator: the batch generate_table returned, not yet written
    ticks,              \* worker thread: run_loop iterations begun
    outcomes,           \* history: generator -> outcome of its latest batch call
    failures,           \* history: exceptions injected so far
    written,            \* history: table -> PK values ever written to its store
    ever_cached,        \* history: table -> PK values ever in primary_key_cache
    signalled,          \* history: a signal has been delivered
    stop_returned       \* history: a stop() that stopped the workers has returned

bvars == <<barrier, hpc, calls, results, timed_out>>

svars == <<config, generators, store, primary_key_cache, parent_rows,
           current_row_id, rows_per_tick, running, thread, cycle_barrier,
           server_running, mpc, mi, pc, ppi, pp_orig, df, ticks, outcomes,
           failures, written, ever_cached, signalled, stop_returned>>

vars == <<barrier, hpc, calls, results, timed_out, svars>>

(* ---- CycleBarrier ---------------------------------------------------- *)

\* CycleBarrier.__init__
CycleBarrier(n) == [num_threads |-> n, counter |-> 0, cycle_number |-> 0]

\* wait(): self.counter += 1
WaitArrive(b) == [b EXCEPT !.counter = @ + 1]

\* a bug that elects the first arrival
WaitIsFirst(b) == b.counter = 1

\* wait(): if self.counter == self.num_threads
WaitIsLast(b) == b.counter = b.num_threads

\* a bug that leaves the counter at N when the round completes
WaitLeaderNoReset(b) == [b EXCEPT !.cycle_number = @ + 1]

\* wait(), last arrival: cycle_number += 1; counter = 0
WaitLeader(b) == [b EXCEPT !.cycle_number = @ + 1, !.counter = 0]

\* a bug that wakes a single waiter (notify() for notify_all())
NotifyOne(p) ==
    IF \E t \in DOMAIN p : p[t] = "waiting"
    THEN LET w == CHOOSE t \in DOMAIN p : p[t] = "waiting"
         IN  [p EXCEPT ![w] = "notified"]
    ELSE p

\* wait(), last arrival: self.condition.notify_all() wakes every thread that
\* is blocked in condition.wait; p maps threads to their positions
NotifyAll(p) ==
    [t \in DOMAIN p |-> IF p[t] = "waiting" THEN "notified" ELSE p[t]]

\* a bug that leaves the counter alone after a wake-up
WaitNoReset(b) == b

\* wait(), after condition.wait returned (notified or timed out):
\* if self.counter > 0: self.counter = 0
WaitAfterWake(b) == IF b.counter > 0 THEN [b EXCEPT !.counter = 0] ELSE b

\* a bug that waits on the condition without a timeout
WaitForever(p, t) == FALSE

\* wait(), line 91: condition.wait(timeout=self.timeout_seconds) of thread t
\* can give up once t is blocked in it
WaitExpires(p, t) == p[t] = "waiting"

(* ---- the test threads of test_postprocess.py --------------------------*)

HThreads == DOMAIN hpc

\* no server is constructed in the barrier tests
NoServer ==
    /\ config = [tables |-> <<>>, t |-> <<>>]
    /\ generators = <<>>
    /\ store = <<>> /\ primary_key_cache = <<>> /\ parent_rows = <<>>
    /\ current_row_id = <<>> /\ rows_per_tick = <<>>
    /\ running = <<>> /\ thread = <<>> /\ cycle_barrier = <<>>
    /\ server_running = FALSE
    /\ mpc = "none" /\ mi = 0
    /\ pc = <<>> /\ ppi = <<>> /\ pp_orig = <<>> /\ df = <<>>
    /\ ticks = <<>> /\ outcomes = <<>> /\ failures = 0
    /\ written = <<>> /\ ever_cached = <<>>
    /\ signalled = FALSE /\ stop_returned = FALSE

BarrierInit ==
    /\ \E n \in 1..MaxThreads :
        /\ barrier = CycleBarrier(n)
        /\ hpc = [t \in 1..n |-> "idle"]
        /\ calls = [t \in 1..n |-> 0]
        /\ results = [t \in 1..n |-> <<>>]
        /\ timed_out = FALSE
    /\ NoServer

\* a test thread calls barrier.wait(): the critical section up to the return
\* True of the last arrival, or up to condition.wait of any other
TWaitEnter(t) ==
    /\ hpc[t] = "idle"
    /\ calls[t] < MaxCycles
    /\ calls' = [calls EXCEPT ![t] = @ + 1]
    /\ LET b == WaitArrive(barrier)
       IN  IF WaitIsLast(b)
           THEN /\ barrier' = WaitLeader(b)
                /\ hpc' = NotifyAll(hpc)
                /\ results' = [results EXCEPT ![t] = Append(@, TRUE)]
           ELSE /\ barrier' = b
                /\ hpc' = [hpc EXCEPT ![t] = "waiting"]
                /\ UNCHANGED results
    /\ UNCHANGED timed_out

\* condition.wait(timeout=60) gives up: the thread leaves the wait without
\* having been notified and queues for the mutex
TWaitTimeout(t) ==
    /\ WaitExpires(hpc, t)
    /\ hpc' = [hpc EXCEPT ![t] = "timedout"]
    /\ timed_out' = TRUE
    /\ UNCHANGED <<barrier, calls, results>>

\* the thread re-acquires the mutex after condition.wait and returns False
TWaitReturn(t) ==
    /\ hpc[t] \in {"notified", "timedout"}
    /\ barrier' = WaitAfterWake(barrier)
    /\ hpc' = [hpc EXCEPT ![t] = "idle"]
    /\ results' = [results EXCEPT ![t] = Append(@, FALSE)]
    /\ UNCHANGED <<calls, timed_out>>

BarrierNext ==
    /\ \E t \in HThreads :
        \/ TWaitEnter(t)
        \/ TWaitTimeout(t)
        \/ TWaitReturn(t)
    /\ UNCHANGED svars

BarrierSpec == BarrierInit /\ [][BarrierNext]_vars

\* a thread inside wait() keeps being scheduled: its condition.wait ends
\* after timeout_seconds at the latest and the mutex is never held for long;
\* nothing makes a thread call wait()
FairBarrierSpec ==
    /\ BarrierSpec
    /\ \A t \in 1..MaxThreads :
          WF_vars(/\ t \in HThreads
                  /\ TWaitTimeout(t) \/ TWaitReturn(t)
                  /\ UNCHANGED svars)

(* ---- counting helpers for the barrier claims --------------------------*)

RECURSIVE CountTrue(_)
CountTrue(s) ==
    IF s = <<>> THEN 0
    ELSE (IF Head(s) THEN 1 ELSE 0) + CountTrue(Tail(s))

RECURSIVE SumOver(_, _)
SumOver(f, S) ==
    IF S = {} THEN 0
    ELSE LET x == CHOOSE y \in S : TRUE
         IN  f[x] + SumOver(f, S \ {x})

\* wait() calls that returned leader so far
LeaderReturns == SumOver([t \in HThreads |-> CountTrue(results[t])], HThreads)

\* rounds in which every one of the N threads has called wait()
FullRounds == CHOOSE r \in 0..MaxCycles :
                /\ \A t \in HThreads : calls[t] >= r
                /\ \E t \in HThreads : calls[t] = r

(* ---- claims about the barrier (BarrierSpec) ---------------------------*)

\* C1: with no timeout firing, every round in which all N threads have
\* called wait() has produced exactly one leader return: the number of
\* wait() calls that returned True equals the number of full rounds, under
\* every interleaving of the threads.
BarrierElection == ~timed_out => LeaderReturns = FullRounds

\* C2 as stated: on a fresh barrier, once each of the N threads has called
\* wait() exactly once and all calls have returned, exactly one returned True.
SingleCycleElection ==
    (\A t \in HThreads : calls[t] = 1 /\ hpc[t] = "idle")
        => Cardinality({t \in HThreads : results[t] = <<TRUE>>}) = 1

\* C2 amended: the same provided no condition wait timed out; then nobody is
\* left blocked once all N have called, exactly one call returned True and
\* every other call returns False.
SingleCycleElectionNoTimeout ==
    (~timed_out /\ \A t \in HThreads : calls[t] = 1)
        => /\ \A t \in HThreads : hpc[t] # "waiting"
           /\ Cardinality({t \in HThreads : results[t] = <<TRUE>>}) = 1
           /\ \A t \in HThreads :
                hpc[t] = "idle" => results[t] \in {<<TRUE>>, <<FALSE>>}

\* C2 witness: three threads called wait() once each, no timeout fired, all
\* three calls returned
SingleCycleDone ==
    /\ barrier.num_threads = 3
    /\ ~timed_out
    /\ \A t \in HThreads : calls[t] = 1 /\ hpc[t] = "idle"

\* C3: cycle_number equals the number of leader returns so far and, with no
\* timeout firing, the number of rounds in which all N threads called wait().
CycleCounter ==
    /\ barrier.cycle_number = LeaderReturns
    /\ ~timed_out => barrier.cycle_number = FullRounds

\* C17: a wait() call returns leader, and cycle_number changes (by one), only
\* in a step in which every other thread of the cohort is inside a wait()
\* call it has not returned from; while some thread stays outside wait(), no
\* call returns leader and cycle_number stays, however often the others time
\* out and call again.
NoElectionWithoutCohort ==
    [][(barrier'.cycle_number # barrier.cycle_number
            \/ LeaderReturns' # LeaderReturns)
          => /\ barrier'.cycle_number = barrier.cycle_number + 1
             /\ LeaderReturns' = LeaderReturns + 1
             /\ \A t \in HThreads :
                    \/ hpc[t] \in {"waiting", "timedout"}
                    \/ hpc[t] = "idle" /\ calls'[t] = calls[t] + 1]_vars

\* C17 witness: of three threads one never called wait(); the other two have
\* each timed out and called wait() again, and no leader was elected
DegradedCycles ==
    /\ barrier.num_threads = 3 /\ timed_out
    /\ \E t \in HThreads :
          /\ calls[t] = 0
          /\ \A u \in HThreads \ {t} : calls[u] = 2 /\ hpc[u] = "waiting"
    /\ barrier.cycle_number = 0 /\ LeaderReturns = 0

(* ---- workers that keep ticking after a degraded cycle (RecoverySpec) ---*)

\* the barrier after a degraded cycle: worker d was delayed and has not called
\* wait(), the others did, the wait of worker a timed out and reset the counter
\* (lines 94-97), the rest are still blocked in condition.wait
RecoveryInit ==
    /\ \E n \in 2..MaxThreads : \E a, d \in 1..n :
        /\ a # d
        /\ barrier = CycleBarrier(n)
        /\ hpc = [t \in 1..n |-> IF t \in {a, d} THEN "idle" ELSE "waiting"]
        /\ calls = [t \in 1..n |-> IF t = d THEN 0 ELSE 1]
        /\ results = [t \in 1..n |-> IF t = a THEN <<FALSE>> ELSE <<>>]
        /\ timed_out = TRUE
    /\ NoServer

\* lines 249-250 of a worker that ticks for ever: it calls wait() again
\* whenever its last call has returned
RWaitEnter(t) ==
    /\ hpc[t] = "idle"
    /\ barrier.cycle_number < MaxCycles
    /\ LET b == WaitArrive(barrier)
       IN  IF WaitIsLast(b)
           THEN barrier' = WaitLeader(b) /\ hpc' = NotifyAll(hpc)
           ELSE barrier' = b /\ hpc' = [hpc EXCEPT ![t] = "waiting"]
    /\ UNCHANGED timed_out

\* condition.wait(timeout=60) gives up. Every worker ticks more often than
\* once in 60 s, so a wait lasts that long only when no arrival can complete
\* the cohort any more: all N workers are blocked in condition.wait
RWaitTimeout(t) ==
    /\ \A u \in HThreads : hpc[u] = "waiting"
    /\ hpc' = [hpc EXCEPT ![t] = "timedout"]
    /\ timed_out' = TRUE
    /\ UNCHANGED barrier

\* lines 93-99: back under the mutex, reset a non-zero counter, return False
RWaitReturn(t) ==
    /\ hpc[t] \in {"notified", "timedout"}
    /\ barrier' = WaitAfterWake(barrier)
    /\ hpc' = [hpc EXCEPT ![t] = "idle"]
    /\ UNCHANGED timed_out

\* the steps of worker t
RWorker(t) ==
    /\ t \in HThreads
    /\ \/ RWaitEnter(t)
       \/ RWaitTimeout(t)
       \/ RWaitReturn(t)
    /\ UNCHANGED <<calls, results, svars>>

RecoveryNext == \E t \in 1..MaxThreads : RWorker(t)

\* every worker thread keeps being scheduled
RecoverySpec ==
    /\ RecoveryInit
    /\ [][RecoveryNext]_vars
    /\ \A t \in 1..MaxThreads : WF_vars(RWorker(t))

(* ======================================================================= *)
(* The server                                                              *)
(* ======================================================================= *)

(* ---- configurations ---------------------------------------------------*)

\* the calls f(p, ...) that reference each table p of `refs` once
RECURSIVE DataOf(_, _)
DataOf(refs, f) ==
    IF refs = {} THEN <<>>
    ELSE LET p == CHOOSE q \in refs : TRUE
         IN  <<[f |-> f, parent |-> p]>> \o DataOf(refs \ {p}, f)

\* one entry of the YAML `tables` list; refs are the parent tables named by
\* the foreign_key(...) / copy_from_fk(...) calls of its columns, columns the
\* `data` expressions as the calls they contain, one column per parent.
\* row_count_kind tells what the YAML row_count is: "int" an integer (the
\* field row_count), "expr" a string whose eval() returns the integer
\* row_count, "error" a string whose eval() raises
Table(policy, enabled, mode, refs, count) ==
    [update_policy |-> policy, enabled |-> enabled, postprocess_mode |-> mode,
     refs |-> refs, rows_per_minute |-> 6, row_count |-> count,
     row_count_kind |-> "int", start_row_id |-> 1,
     columns |-> [i \in 1..Cardinality(refs) |->
                    <<DataOf(refs, "foreign_key")[i]>>]]

Stream(refs)  == Table("append", TRUE, "replace", refs, 1)
Paused(refs)  == Table("append", FALSE, "replace", refs, 1)
Static(refs)  == Table("disabled", TRUE, "replace", refs, 2)
Post(mode, refs) ==
    [Table("postprocess", TRUE, mode, refs, 1) EXCEPT !.rows_per_minute = 12]

\* the configurations the server is started on
Configs ==
    { \* a chain of streaming tables  A <- B <- C
      [tables |-> <<"A", "B", "C">>,
       t |-> [A |-> Stream({}), B |-> Stream({"A"}), C |-> Stream({"B"})]],
      \* a static parent (update_policy: disabled) of a stream, listed after it
      [tables |-> <<"B", "A">>,
       t |-> [A |-> Static({}), B |-> Stream({"A"})]],
      \* a stream with a replace-mode post-process child
      [tables |-> <<"A", "B">>,
       t |-> [A |-> Stream({}), B |-> Post("replace", {"A"})]],
      \* a stream with an append-mode post-process child
      [tables |-> <<"A", "B">>,
       t |-> [A |-> Stream({}), B |-> Post("append", {"A"})]],
      \* a replace-mode post-process parent of a stream
      [tables |-> <<"A", "B">>,
       t |-> [A |-> Post("replace", {}), B |-> Stream({"A"})]],
      \* a parent whose cadence is disabled
      [tables |-> <<"A", "B">>,
       t |-> [A |-> Paused({}), B |-> Stream({"A"})]],
      \* two streams, parent and child, and a post-process table
      [tables |-> <<"C", "B", "A">>,
       t |-> [A |-> Stream({}), B |-> Stream({"A"}), C |-> Post("replace", {"B"})]],
      \* a stream with two post-process tables; one column of B calls
      \* foreign_key for A and then for C
      [tables |-> <<"A", "B", "C">>,
       t |-> [A |-> Stream({}),
              B |-> [Post("replace", {"A", "C"}) EXCEPT
                        !.columns = <<DataOf({"A"}, "foreign_key")
                                         \o DataOf({"C"}, "foreign_key")>>],
              C |-> Post("replace", {"A"})]],
      \* a cyclic configuration  A <-> B of static tables
      [tables |-> <<"A", "B">>,
       t |-> [A |-> Static({"B"}), B |-> Static({"A"})]] }

Range(s) == {s[i] : i \in DOMAIN s}

Tables == Range(config.tables)
Policy(g) == config.t[g].update_policy
Enabled(g) == config.t[g].enabled
StartRowId(g) == config.t[g].start_row_id

(* ---- dependency resolver ----------------------------------------------*)

\* cmd.find(name + '('): the first call of that name in a data expression,
\* 0 when there is none
FindCall(cmd, name) ==
    IF \E i \in DOMAIN cmd : cmd[i].f = name
    THEN CHOOSE i \in DOMAIN cmd :
            /\ cmd[i].f = name
            /\ \A j \in DOMAIN cmd : cmd[j].f = name => i <= j
    ELSE 0

\* the parents _extract_dependencies finds in one column: the table named by
\* the first foreign_key( call and by the first copy_from_fk( call
ColumnParents(cmd) ==
    {cmd[i].parent : i \in {FindCall(cmd, "foreign_key"),
                            FindCall(cmd, "copy_from_fk")} \ {0}}

\* StreamingServer._extract_dependencies: table -> set of parent tables
ExtractDependencies(c) ==
    [g \in Range(c.tables) |->
        UNION {ColumnParents(c.t[g].columns[i]) : i \in DOMAIN c.t[g].columns}]

\* the orders in which a Python set may be iterated
Perms(S) ==
    {q \in [1..Cardinality(S) -> S] : \A i, j \in DOMAIN q : i # j => q[i] # q[j]}

RECURSIVE Kahn(_, _, _, _)
\* the while loop of _topological_sort; queue is a list, children[n] a set
\* whose iteration order is not fixed
Kahn(deps, queue, indeg, order) ==
    IF queue = <<>> THEN {order}
    ELSE LET n == Head(queue)
             kids == {c \in DOMAIN deps : n \in deps[c]}
             indeg2 == [c \in DOMAIN indeg |->
                          IF c \in kids THEN indeg[c] - 1 ELSE indeg[c]]
             ready == {c \in kids : indeg2[c] = 0}
             order2 == IF n \in DOMAIN deps THEN Append(order, n) ELSE order
         IN  UNION { Kahn(deps, Tail(queue) \o q, indeg2, order2) : q \in Perms(ready) }

\* _topological_sort up to the length test: the lists `order` may hold when
\* the while loop ends, one for every iteration order of the sets
KahnOrders(deps) ==
    LET nodes == DOMAIN deps \cup UNION {deps[g] : g \in DOMAIN deps}
        indeg == [n \in nodes |->
                    IF n \in DOMAIN deps THEN Cardinality(deps[n]) ELSE 0]
        zero == {n \in nodes : indeg[n] = 0}
    IN  UNION { Kahn(deps, q, indeg, <<>>) : q \in Perms(zero) }

\* StreamingServer._topological_sort: the orders it may return; the empty set
\* when it raises "Circular or missing dependencies"
TopologicalSort(deps) ==
    {o \in KahnOrders(deps) : Len(o) = Cardinality(DOMAIN deps)}

\* lines 417-418: the tables the exception names as unresolved
Unresolved(deps, order) == DOMAIN deps \ {order[i] : i \in DOMAIN order}

\* StreamingServer._order_generators: dependency order, or config order when
\* the sort fails
OrderGenerators(c) ==
    LET sorted == TopologicalSort(ExtractDependencies(c))
    IN  IF sorted # {} THEN sorted ELSE {c.tables}

\* a bug that keeps every generator, whatever its policy
SelectAll(seq, policy) == seq

\* StreamingServer.__init__: self.postprocess_tables
SelectPolicy(seq, policy) ==
    LET F[i \in 0..Len(seq)] ==
            IF i = 0 THEN <<>>
            ELSE IF Policy(seq[i]) = policy THEN Append(F[i-1], seq[i]) ELSE F[i-1]
    IN  F[Len(seq)]

postprocess_tables == SelectPolicy(generators, "postprocess")

\* a bug that counts every append table, paused ones included
CountsPaused(g) == Policy(g) = "append"

\* StreamingServer.start step 3: streaming_gens
IsStreaming(g) == Policy(g) = "append" /\ Enabled(g)
streaming_gens == {g \in Tables : IsStreaming(g)}

(* ---- rows, store and caches -------------------------------------------*)

\* StreamingTableGenerator.__init__: rows_per_tick
RowsPerTick(rpm) ==
    LET n == (rpm * 10) \div 60 IN IF n > 1 THEN n ELSE 1

\* the rows of a store the server may find at startup: ids 1..k, every
\* foreign key pointing at row 1 of the parent
ExistingRows(c, g, k) ==
    [i \in 1..k |-> [id |-> i, fk |-> [p \in c.t[g].refs |-> 1]]]

Ids(rows) == {rows[i].id : i \in DOMAIN rows}

\* a bug that continues from the number of stored rows
CountOf(S) == Cardinality(S)

\* df[pk_cols[0]].max()
RECURSIVE MaxOf(_)
MaxOf(S) == LET x == CHOOSE y \in S : TRUE
            IN  IF S = {x} THEN x
                ELSE LET m == MaxOf(S \ {x}) IN IF x > m THEN x ELSE m

\* StreamingTableGenerator.__init__ and StreamingServer.__init__ for the
\* loaded config: every generator fresh, no barrier, server not running
Fresh ==
    /\ barrier = CycleBarrier(0)
    /\ hpc = <<>> /\ calls = <<>> /\ results = <<>>
    /\ timed_out = FALSE
    /\ primary_key_cache = <<>>
    /\ parent_rows = <<>>
    /\ ever_cached = [g \in Tables |-> {}]
    /\ current_row_id = [g \in Tables |-> StartRowId(g)]
    /\ rows_per_tick = [g \in Tables |-> RowsPerTick(config.t[g].rows_per_minute)]
    /\ running = [g \in Tables |-> FALSE]
    /\ thread = [g \in Tables |-> FALSE]
    /\ cycle_barrier = [g \in Tables |-> FALSE]
    /\ server_running = FALSE
    /\ pc = [g \in Tables |-> "none"]
    /\ ppi = [g \in Tables |-> 0]
    /\ pp_orig = [g \in Tables |-> 0]
    /\ df = [g \in Tables |-> <<>>]
    /\ ticks = [g \in Tables |-> 0]
    /\ outcomes = [g \in Tables |-> "none"]
    /\ failures = 0
    /\ signalled = FALSE
    /\ stop_returned = FALSE

\* the constructor has ordered the generators (line 333); start() begins
Constructed ==
    /\ Fresh
    /\ generators \in OrderGenerators(config)
    /\ mpc = "load" /\ mi = 1

Init ==
    /\ config \in Configs
    /\ \E k \in {0, MaxExisting} :
         /\ store = [g \in Tables |->
                       IF k = 0 THEN [exists |-> FALSE, rows |-> <<>>]
                       ELSE [exists |-> TRUE, rows |-> ExistingRows(config, g, k)]]
         /\ written = [g \in Tables |-> 1..k]
    /\ Constructed

(* ---- row synthesizer and table store (collaborators) ------------------*)

\* the parent keys generate_table may put into one row of g: for each
\* referenced parent, a value of that parent's PK list
FkChoices(g) ==
    LET refs == config.t[g].refs
        vals == UNION {Range(primary_key_cache[p]) :
                         p \in refs \cap DOMAIN primary_key_cache}
    IN  {f \in [refs -> vals] :
            \A p \in refs : /\ p \in DOMAIN primary_key_cache
                            /\ f[p] \in Range(primary_key_cache[p])}

\* a buggy synthesizer that invents foreign keys from the child's own id range
SynthesizeUnchecked(g, n, start) ==
    {[i \in 1..n |-> [id |-> start + i - 1,
                      fk |-> [p \in config.t[g].refs |-> start + i]]]}

\* TableFaker.generate_table(batch_config, ...): the batches it may return
\* for row_count n and start_row_id start; none when a referenced parent has
\* no PK in the cache (the call raises)
Synthesize(g, n, start) ==
    {[i \in 1..n |-> [id |-> start + i - 1, fk |-> c[i]]] :
        c \in [1..n -> FkChoices(g)]}

\* generate_table records the generated PKs in primary_key_cache ...
CacheAdd(cache, g, rows) ==
    [h \in DOMAIN cache \cup {g} |->
        IF h = g
        THEN (IF g \in DOMAIN cache THEN cache[g] ELSE <<>>)
                \o [i \in DOMAIN rows |-> rows[i].id]
        ELSE cache[h]]

\* ... and the generated rows in parent_rows
ParentRowsAdd(prows, g, rows) ==
    [h \in DOMAIN prows \cup {g} |->
        IF h = g
        THEN [k \in (IF g \in DOMAIN prows THEN DOMAIN prows[g] ELSE {}) \cup Ids(rows) |->
                IF k \in Ids(rows)
                THEN rows[CHOOSE i \in DOMAIN rows : rows[i].id = k]
                ELSE prows[g][k]]
        ELSE prows[h]]

\* a bug that empties the whole map
CacheClear(cache, g) == [h \in {} |-> <<>>]

\* del cache[g]
CacheDel(cache, g) == [h \in DOMAIN cache \ {g} |-> cache[h]]

\* write_deltalake(path, df, mode): "overwrite" creates the table from df,
\* "append" adds df to it; all rows of one call land together
WriteDeltalake(st, g, rows, mode) ==
    [st EXCEPT ![g] = [exists |-> TRUE,
                       rows |-> IF mode = "overwrite" THEN rows ELSE @.rows \o rows]]

(* ---- StreamingTableGenerator.generate_and_append_batch ----------------*)

\* lines 207-213: the generate_table call succeeded with batch `rows`
BatchGenerated(g, n, rows) ==
    /\ rows \in Synthesize(g, n, current_row_id[g])
    /\ primary_key_cache' = CacheAdd(primary_key_cache, g, rows)
    /\ parent_rows' = ParentRowsAdd(parent_rows, g, rows)
    /\ ever_cached' = [ever_cached EXCEPT ![g] = @ \cup Ids(rows)]

\* a bug that creates the table anew on every write
AlwaysOverwrite(g) == "overwrite"

\* lines 216-223: overwrite when the directory does not exist, else append
WriteMode(g) == IF ~store[g].exists THEN "overwrite" ELSE "append"

\* a bug that forgets to advance the counter
AdvanceNever(g, n) == current_row_id[g]

\* a bug that advances the counter by twice the batch size
AdvanceTwice(g, n) == current_row_id[g] + 2 * n

\* line 228: self.current_row_id += self.rows_per_tick
AdvanceRowId(g, n) == current_row_id[g] + n

\* lines 215-225: the write succeeded
BatchWritten(g, rows) ==
    /\ store' = WriteDeltalake(store, g, rows, WriteMode(g))
    /\ written' = [written EXCEPT ![g] = @ \cup Ids(rows)]

\* history: the outcome of a finished batch call of g; a failure not forced
\* by the state (`injected`) counts against MaxFailures
Record(g, o, injected) ==
    /\ outcomes' = [outcomes EXCEPT ![g] = o]
    /\ IF injected
       THEN failures < MaxFailures /\ failures' = failures + 1
       ELSE failures' = failures

\* the whole call on the main thread (static generation and seed) with
\* rows_per_tick = n: the call returns after generate_table raised, after
\* write_deltalake raised, or after the batch was written
\* a bug that leaves the temporary batch size in place
KeepsRowCount(original, temporary) == temporary

\* lines 468-471 and 565, 618-621: rows_per_tick after the single batch of a
\* static generation or a post-process run, whose batch size was temporary
RestoreRowsPerTick(original, temporary) == original

BatchCall(g, n) ==
    \/ /\ Record(g, "synth_failed", Synthesize(g, n, current_row_id[g]) # {})
       /\ UNCHANGED <<primary_key_cache, parent_rows, ever_cached,
                      store, written, current_row_id>>
    \/ \E rows \in Synthesize(g, n, current_row_id[g]) :
         /\ BatchGenerated(g, n, rows)
         /\ \/ /\ Record(g, "append_failed", TRUE)
               /\ UNCHANGED <<store, written, current_row_id>>
            \/ /\ Record(g, "ok", FALSE)
               /\ BatchWritten(g, rows)
               /\ current_row_id' = [current_row_id EXCEPT ![g] = AdvanceRowId(g, n)]

(* ---- StreamingServer.start: the startup sequence (main thread) --------*)

MainAt(p) == mpc = p /\ mi \in 1..Len(generators)

\* a bug that leaves each startup loop after its first generator
MainSkip(next) == mi' = 1 /\ mpc' = next

\* advance the loop of one startup phase, or move on to the next phase
MainStep(next) ==
    IF mi < Len(generators)
    THEN mi' = mi + 1 /\ mpc' = mpc
    ELSE mi' = 1 /\ mpc' = next

\* a dependency is missing when it has no entry in primary_key_cache
MissingDeps(g) ==
    {dep \in ExtractDependencies(config)[g] : dep \notin DOMAIN primary_key_cache}

\* a bug that creates the table's entry of the PK index (lines 167-168)
\* before the read
ReadFailedAfterEntry(g) ==
    /\ primary_key_cache' =
          [h \in DOMAIN primary_key_cache \cup {g} |->
              IF h = g THEN <<>> ELSE primary_key_cache[h]]
    /\ UNCHANGED <<parent_rows, ever_cached, current_row_id>>

\* lines 151-155 and 191-193: DeltaTable(...) or to_pandas() raises; the
\* handler logs, and nothing has been assigned yet
ReadFailed(g) ==
    UNCHANGED <<primary_key_cache, parent_rows, ever_cached, current_row_id>>

\* StreamingTableGenerator.load_existing_data of generators[mi] (step 1);
\* reading the table may raise, which is logged and swallowed
LoadExistingData ==
    /\ MainAt("load")
    /\ LET g == generators[mi]
           rows == store[g].rows
       IN  \/ /\ ~store[g].exists \/ rows = <<>>
              /\ UNCHANGED <<primary_key_cache, parent_rows, ever_cached,
                             current_row_id, failures>>
           \/ /\ store[g].exists
              /\ failures < MaxFailures /\ failures' = failures + 1
              /\ ReadFailed(g)
           \/ /\ store[g].exists /\ rows # <<>>
              /\ UNCHANGED failures
              /\ primary_key_cache' =
                    [h \in DOMAIN primary_key_cache \cup {g} |->
                        IF h = g THEN [i \in DOMAIN rows |-> rows[i].id]
                        ELSE primary_key_cache[h]]
              /\ parent_rows' = ParentRowsAdd(parent_rows, g, rows)
              /\ ever_cached' = [ever_cached EXCEPT ![g] = @ \cup Ids(rows)]
              /\ current_row_id' = [current_row_id EXCEPT ![g] = MaxOf(Ids(rows)) + 1]
    /\ MainStep("static")
    /\ UNCHANGED <<store, written, outcomes, rows_per_tick, running, thread,
                   cycle_barrier, server_running, pc, barrier>>

\* step 2 for generators[mi]: a disabled table whose parents are all cached
\* is generated once with rows_per_tick = row_count
GenerateStatic ==
    /\ MainAt("static")
    /\ LET g == generators[mi]
       IN  IF Policy(g) = "disabled" /\ MissingDeps(g) = {}
           THEN /\ BatchCall(g, config.t[g].row_count)
                /\ rows_per_tick' =
                      [rows_per_tick EXCEPT ![g] =
                          RestoreRowsPerTick(@, config.t[g].row_count)]
           ELSE UNCHANGED <<primary_key_cache, parent_rows, ever_cached,
                            store, written, current_row_id, outcomes, failures,
                            rows_per_tick>>
    /\ MainStep("barrier")
    /\ UNCHANGED <<running, thread, cycle_barrier, server_running, pc, barrier>>

\* step 3: one CycleBarrier for all streaming generators
CreateBarrier ==
    /\ mpc = "barrier"
    /\ IF streaming_gens # {}
       THEN /\ barrier' = CycleBarrier(Cardinality(streaming_gens))
            /\ cycle_barrier' = [g \in Tables |-> g \in streaming_gens]
       ELSE UNCHANGED <<barrier, cycle_barrier>>
    /\ mpc' = "seed" /\ mi' = 1
    /\ UNCHANGED <<primary_key_cache, parent_rows, ever_cached, store, written,
                   current_row_id, outcomes, failures, rows_per_tick, running,
                   thread, server_running, pc>>

\* a bug that seeds every streaming table
SeedsEveryStream(g) == IsStreaming(g)

\* step 4, lines 486-488: the streaming tables that get an initial batch
NeedsSeed(g) ==
    /\ IsStreaming(g)
    /\ ExtractDependencies(config)[g] = {}
    /\ g \notin DOMAIN primary_key_cache

\* step 4 for generators[mi]: an initial batch for a streaming table without
\* parents and without an entry in primary_key_cache
SeedBatch ==
    /\ MainAt("seed")
    /\ LET g == generators[mi]
       IN  IF NeedsSeed(g)
           THEN BatchCall(g, rows_per_tick[g])
           ELSE UNCHANGED <<primary_key_cache, parent_rows, ever_cached,
                            store, written, current_row_id, outcomes, failures>>
    /\ MainStep("start")
    /\ UNCHANGED <<rows_per_tick, running, thread, cycle_barrier,
                   server_running, pc, barrier>>

\* StreamingTableGenerator.start: no thread for policy disabled or cadence off
Starts(g) == Policy(g) # "disabled" /\ Enabled(g)

\* a bug that calls generator.start() for every table
StartsAnyTable(g) == TRUE

\* step 5, line 495: the tables start() calls generator.start() for
StartsThread(g) == Policy(g) = "append" /\ Enabled(g)

\* step 5 for generators[mi]: generator.start() for append tables
StartGenerator ==
    /\ MainAt("start")
    /\ LET g == generators[mi]
       IN  IF StartsThread(g) /\ Starts(g)
           THEN /\ running' = [running EXCEPT ![g] = TRUE]
                /\ thread' = [thread EXCEPT ![g] = TRUE]
                /\ pc' = [pc EXCEPT ![g] = "loop"]
           ELSE UNCHANGED <<running, thread, pc>>
    /\ MainStep("mark")
    /\ UNCHANGED <<primary_key_cache, parent_rows, ever_cached, store, written,
                   current_row_id, outcomes, failures, rows_per_tick, cycle_barrier,
                   server_running, barrier>>

\* line 498: self.running = True, then the main loop
MarkRunning ==
    /\ mpc = "mark"
    /\ server_running' = TRUE
    /\ mpc' = "idle"
    /\ UNCHANGED <<mi, primary_key_cache, parent_rows, ever_cached, store, written,
                   current_row_id, outcomes, failures, rows_per_tick, running,
                   thread, cycle_barrier, pc, barrier>>

(* ---- stop and signals -------------------------------------------------*)

\* a bug that stops the workers whatever the server's running flag
StopGuardMissing == TRUE

\* StreamingServer.stop, line 638: the call acts only on a running server
StopActs == server_running

\* StreamingServer.stop with StreamingTableGenerator.stop for every
\* generator (join(timeout=5) may give up while the thread is still alive)
Stop ==
    IF StopActs
    THEN /\ server_running' = FALSE
         /\ running' = [g \in Tables |->
                          IF thread[g] /\ running[g] THEN FALSE ELSE running[g]]
         /\ stop_returned' = TRUE
    ELSE UNCHANGED <<server_running, running, stop_returned>>

\* _signal_handler: SIGINT or SIGTERM arrives while the process is alive; the
\* handler runs on the main thread between two of its steps
SignalHandler ==
    /\ mpc # "exited"
    /\ signalled' = TRUE
    /\ Stop
    /\ UNCHANGED <<mpc, mi>>

\* lines 505-510: the main loop ends when running is clear, calls stop() and
\* start() returns; main() returns and the daemon threads die with the process
MainLoopExit ==
    /\ mpc = "idle"
    /\ ~server_running
    /\ Stop
    /\ mpc' = "exited"
    /\ UNCHANGED <<mi, signalled>>

(* ---- StreamingTableGenerator.run_loop (one thread per streaming table) -*)

Alive(t) == mpc # "exited" /\ t \in Tables

\* a bug that never polls the flag
LoopsForever(t) == TRUE

\* line 241: the test of `while self.running`
KeepsRunning(t) == running[t]

\* line 241: while self.running
LoopHead(t) ==
    /\ Alive(t) /\ pc[t] = "loop"
    /\ IF KeepsRunning(t)
       THEN /\ SumOver(ticks, Tables) < MaxTicks
            /\ ticks' = [ticks EXCEPT ![t] = @ + 1]
            /\ pc' = [pc EXCEPT ![t] = "synth"]
       ELSE /\ pc' = [pc EXCEPT ![t] = "exited"]
            /\ UNCHANGED ticks

\* a bug that lets the exception of a failed batch reach run_loop's handler,
\* which skips the barrier
SkipBarrierAfterFailure(t, o) ==
    IF o # "ok" THEN "loop"
    ELSE IF cycle_barrier[t] THEN "barrier" ELSE "loop"

\* where run_loop continues after generate_and_append_batch returned with
\* outcome o: the batch catches its own exceptions (lines 230-234), so the
\* barrier is reached whatever the outcome (lines 249-250)
AfterBatch(t, o) == IF cycle_barrier[t] THEN "barrier" ELSE "loop"

\* lines 199-213 in a worker: the generate_table call of the tick
TickGenerate(t) ==
    /\ Alive(t) /\ pc[t] = "synth"
    /\ \/ /\ Record(t, "synth_failed",
                    Synthesize(t, rows_per_tick[t], current_row_id[t]) # {})
          /\ pc' = [pc EXCEPT ![t] = AfterBatch(t, "synth_failed")]
          /\ UNCHANGED <<primary_key_cache, parent_rows, ever_cached, df>>
       \/ \E rows \in Synthesize(t, rows_per_tick[t], current_row_id[t]) :
            /\ BatchGenerated(t, rows_per_tick[t], rows)
            /\ df' = [df EXCEPT ![t] = rows]
            /\ pc' = [pc EXCEPT ![t] = "append"]
            /\ UNCHANGED <<outcomes, failures>>

\* lines 215-234 in a worker: the write_deltalake call of the tick
TickWrite(t) ==
    /\ Alive(t) /\ pc[t] = "append"
    /\ df' = [df EXCEPT ![t] = <<>>]
    /\ \/ /\ Record(t, "append_failed", TRUE)
          /\ pc' = [pc EXCEPT ![t] = AfterBatch(t, "append_failed")]
          /\ UNCHANGED <<store, written, current_row_id>>
       \/ /\ Record(t, "ok", FALSE)
          /\ BatchWritten(t, df[t])
          /\ current_row_id' =
                [current_row_id EXCEPT ![t] = AdvanceRowId(t, rows_per_tick[t])]
          /\ pc' = [pc EXCEPT ![t] = AfterBatch(t, "ok")]

\* a bug that triggers the post-process whatever wait() returned
AlwaysTrigger(leader) == "pp"

\* lines 250-256: where run_loop continues after wait() returned `leader`;
\* the executor is called on True (self.server is bound with the barrier)
AfterWait(leader) == IF leader THEN "pp" ELSE "loop"

\* lines 249-256: cycle_barrier.wait() up to its return True or to
\* condition.wait; the leader goes on to execute_postprocess_tables
WaitEnter(t) ==
    /\ Alive(t) /\ pc[t] = "barrier"
    /\ LET b == WaitArrive(barrier)
       IN  IF WaitIsLast(b)
           THEN /\ barrier' = WaitLeader(b)
                /\ pc' = [NotifyAll(pc) EXCEPT ![t] = AfterWait(TRUE)]
                /\ ppi' = [ppi EXCEPT ![t] = 1]
           ELSE /\ barrier' = b
                /\ pc' = [pc EXCEPT ![t] = "waiting"]
                /\ UNCHANGED ppi

\* condition.wait(timeout=60) times out
WaitTimeout(t) ==
    /\ Alive(t) /\ WaitExpires(pc, t)
    /\ pc' = [pc EXCEPT ![t] = "timedout"]

\* lines 93-99: back under the mutex, reset a non-zero counter, return False;
\* the worker sleeps out its interval and loops
WaitReturn(t) ==
    /\ Alive(t) /\ pc[t] \in {"notified", "timedout"}
    /\ barrier' = WaitAfterWake(barrier)
    /\ pc' = [pc EXCEPT ![t] = AfterWait(FALSE)]

(* ---- StreamingServer.execute_postprocess_tables (leader thread) -------*)

Mode(g) == config.t[g].postprocess_mode

\* a bug that drops the table from the caches but keeps its directory
ReplaceKeepsRows(g) ==
    /\ store' = store
    /\ primary_key_cache' = CacheDel(primary_key_cache, g)
    /\ parent_rows' = CacheDel(parent_rows, g)

\* lines 542-559: replace mode removes the table directory and recreates it
\* empty, drops the table from both caches and resets its row id
ReplaceExisting(g) ==
    /\ store' = [store EXCEPT ![g] = [exists |-> TRUE, rows |-> <<>>]]
    /\ primary_key_cache' = CacheDel(primary_key_cache, g)
    /\ parent_rows' = CacheDel(parent_rows, g)

\* line 607: the row count used when the expression cannot be evaluated
FallbackRowCount == 100

\* a bug that regenerates a single row when the expression cannot be evaluated
FallbackOne(tc) == IF tc.row_count_kind = "error" THEN 1 ELSE tc.row_count

\* lines 565-609: the row count of a post-process run for table entry tc; a
\* string is evaluated, and replaced by the fallback when eval() raises
ResolveRowCount(tc) ==
    IF tc.row_count_kind = "error" THEN FallbackRowCount ELSE tc.row_count

\* the for loop of the executor reaches its next table, or ends
PostprocessNext(t) ==
    /\ Alive(t) /\ pc[t] = "pp"
    /\ IF ppi[t] > Len(postprocess_tables)
       THEN /\ pc' = [pc EXCEPT ![t] = "loop"]
            /\ UNCHANGED <<ppi, pp_orig, store, primary_key_cache, parent_rows,
                           current_row_id, rows_per_tick>>
       ELSE LET g == postprocess_tables[ppi[t]]
            IN  IF MissingDeps(g) # {}
                THEN /\ ppi' = [ppi EXCEPT ![t] = @ + 1]
                     /\ UNCHANGED <<pc, pp_orig, store, primary_key_cache,
                                    parent_rows, current_row_id, rows_per_tick>>
                ELSE /\ IF Mode(g) = "replace" /\ store[g].exists
                        THEN /\ ReplaceExisting(g)
                             /\ current_row_id' =
                                  [current_row_id EXCEPT ![g] = StartRowId(g)]
                        ELSE UNCHANGED <<store, primary_key_cache, parent_rows,
                                         current_row_id>>
                     /\ pp_orig' = [pp_orig EXCEPT ![t] = rows_per_tick[g]]
                     /\ rows_per_tick' =
                          [rows_per_tick EXCEPT ![g] = ResolveRowCount(config.t[g])]
                     /\ pc' = [pc EXCEPT ![t] = "pp_synth"]
                     /\ UNCHANGED ppi
    /\ UNCHANGED <<barrier, timed_out, df, ticks, outcomes, failures, written,
                   ever_cached>>

\* a bug that lets a failure end the whole executor run
AbortOnFailure(o) == IF o = "ok" THEN "pp" ELSE "loop"

\* lines 526 and 630-634: the try/except around the body of the for loop; the
\* leader goes on with the next table whatever the outcome o of this one
AfterPostprocess(o) == "pp"

\* lines 621-625 after the batch call returned with outcome o: restore
\* rows_per_tick, reset the row id in replace mode, go on with the next table
PostprocessDone(t, g, row_id, o) ==
    /\ rows_per_tick' =
          [rows_per_tick EXCEPT ![g] = RestoreRowsPerTick(pp_orig[t], @)]
    /\ current_row_id' =
          [current_row_id EXCEPT ![g] =
              IF Mode(g) = "replace" THEN StartRowId(g) ELSE row_id]
    /\ ppi' = [ppi EXCEPT ![t] = @ + 1]
    /\ pc' = [pc EXCEPT ![t] = AfterPostprocess(o)]

\* the body of the for loop raises before the batch call: in shutil.rmtree
\* (nothing deleted yet), or after the replace-mode clean-up when the resolved
\* row_count cannot be converted by int(); the handler of lines 630-634 logs
\* and the loop goes on
PostprocessRaise(t) ==
    /\ Alive(t) /\ pc[t] = "pp"
    /\ ppi[t] <= Len(postprocess_tables)
    /\ LET g == postprocess_tables[ppi[t]]
       IN  /\ MissingDeps(g) = {}
           /\ Record(g, "pp_failed", TRUE)
           /\ \/ /\ Mode(g) = "replace" /\ store[g].exists
                 /\ UNCHANGED <<store, primary_key_cache, parent_rows,
                                current_row_id>>
              \/ IF Mode(g) = "replace" /\ store[g].exists
                 THEN /\ ReplaceExisting(g)
                      /\ current_row_id' =
                            [current_row_id EXCEPT ![g] = StartRowId(g)]
                 ELSE UNCHANGED <<store, primary_key_cache, parent_rows,
                                  current_row_id>>
    /\ ppi' = [ppi EXCEPT ![t] = @ + 1]
    /\ pc' = [pc EXCEPT ![t] = AfterPostprocess("pp_failed")]
    /\ UNCHANGED <<barrier, timed_out, df, ticks, written, ever_cached,
                   pp_orig, rows_per_tick>>

\* line 619, the generate_table call of the post-process batch
PostprocessGenerate(t) ==
    /\ Alive(t) /\ pc[t] = "pp_synth"
    /\ LET g == postprocess_tables[ppi[t]]
       IN  \/ /\ Record(g, "synth_failed",
                         Synthesize(g, rows_per_tick[g], current_row_id[g]) # {})
              /\ PostprocessDone(t, g, current_row_id[g], "synth_failed")
              /\ UNCHANGED <<primary_key_cache, parent_rows, ever_cached, df>>
           \/ \E rows \in Synthesize(g, rows_per_tick[g], current_row_id[g]) :
                /\ BatchGenerated(g, rows_per_tick[g], rows)
                /\ df' = [df EXCEPT ![g] = rows]
                /\ pc' = [pc EXCEPT ![t] = "pp_append"]
                /\ UNCHANGED <<outcomes, failures, rows_per_tick, current_row_id, ppi>>
    /\ UNCHANGED <<barrier, timed_out, ticks, store, written, pp_orig>>

\* line 619, the write_deltalake call of the post-process batch
PostprocessWrite(t) ==
    /\ Alive(t) /\ pc[t] = "pp_append"
    /\ LET g == postprocess_tables[ppi[t]]
       IN  /\ df' = [df EXCEPT ![g] = <<>>]
           /\ \/ /\ Record(g, "append_failed", TRUE)
                 /\ PostprocessDone(t, g, current_row_id[g], "append_failed")
                 /\ UNCHANGED <<store, written>>
              \/ /\ Record(g, "ok", FALSE)
                 /\ BatchWritten(g, df[g])
                 /\ PostprocessDone(t, g, AdvanceRowId(g, rows_per_tick[g]), "ok")
    /\ UNCHANGED <<barrier, timed_out, ticks, primary_key_cache, parent_rows,
                   ever_cached, pp_orig>>

(* ---- the server's next-state relation ---------------------------------*)

fixed == <<hpc, calls, results, config, generators>>

Startup ==
    /\ \/ LoadExistingData
       \/ GenerateStatic
       \/ CreateBarrier
       \/ SeedBatch
       \/ StartGenerator
       \/ MarkRunning
    /\ UNCHANGED <<timed_out, ppi, pp_orig, df, ticks, signalled, stop_returned>>

lifecycle_frame ==
    <<barrier, timed_out, store, primary_key_cache, parent_rows,
      current_row_id, rows_per_tick, thread, cycle_barrier, pc, ppi,
      pp_orig, df, ticks, outcomes, failures, written, ever_cached>>

Signal == SignalHandler /\ UNCHANGED lifecycle_frame

MainExit == MainLoopExit /\ UNCHANGED lifecycle_frame

Tick(t) ==
    \/ /\ LoopHead(t)
       /\ UNCHANGED <<barrier, timed_out, store, primary_key_cache, parent_rows,
                      current_row_id, rows_per_tick, ppi, pp_orig, df, outcomes,
                      failures, written, ever_cached>>
    \/ /\ TickGenerate(t)
       /\ UNCHANGED <<barrier, timed_out, store, current_row_id, rows_per_tick,
                      ppi, pp_orig, ticks, written>>
    \/ /\ TickWrite(t)
       /\ UNCHANGED <<barrier, timed_out, primary_key_cache, parent_rows,
                      rows_per_tick, ppi, pp_orig, ticks, ever_cached>>

Rendezvous(t) ==
    \/ /\ WaitEnter(t)
       /\ UNCHANGED <<timed_out, store, primary_key_cache, parent_rows,
                      current_row_id, rows_per_tick, pp_orig, df, ticks, outcomes,
                      failures, written, ever_cached>>
    \/ /\ WaitTimeout(t)
       /\ UNCHANGED <<barrier, timed_out, store, primary_key_cache, parent_rows,
                      current_row_id, rows_per_tick, ppi, pp_orig, df, ticks,
                      outcomes, failures, written, ever_cached>>
    \/ /\ WaitReturn(t)
       /\ UNCHANGED <<timed_out, store, primary_key_cache, parent_rows,
                      current_row_id, rows_per_tick, ppi, pp_orig, df, ticks,
                      outcomes, failures, written, ever_cached>>

Postprocess(t) ==
    \/ PostprocessNext(t)
    \/ PostprocessRaise(t)
    \/ PostprocessGenerate(t)
    \/ PostprocessWrite(t)

Worker ==
    /\ \E t \in Tables : Tick(t) \/ Rendezvous(t) \/ Postprocess(t)
    /\ UNCHANGED <<running, thread, cycle_barrier, server_running, mpc, mi,
                   signalled, stop_returned>>

\* the steps of the program's own threads (a signal is the environment's)
Program == (Startup \/ MainExit \/ Worker) /\ UNCHANGED fixed

Next == Program \/ (Signal /\ UNCHANGED fixed)

Spec == Init /\ [][Next]_vars

\* the main thread and the worker threads each keep being scheduled; no signal
\* is ever owed
FairSpec ==
    /\ Spec
    /\ WF_vars(Startup /\ UNCHANGED fixed)
    /\ WF_vars(MainExit /\ UNCHANGED fixed)
    /\ WF_vars(Worker /\ UNCHANGED fixed)

(* ---- warm-up on stores of any content (WarmupSpec) --------------------*)

\* the primary keys a stored table may hold, in store order
StoredIdLists ==
    {q \in UNION {[1..n -> 1..MaxStoredId] : n \in 0..MaxStoredId} :
        \A i, j \in DOMAIN q : i # j => q[i] # q[j]}

\* a stored table with these primary keys
StoredRows(c, g, ids) ==
    [i \in DOMAIN ids |-> [id |-> ids[i], fk |-> [p \in c.t[g].refs |-> 1]]]

\* a static parent and a streaming child whose row ids start at 2
WarmupConfig ==
    [tables |-> <<"B", "A">>,
     t |-> [A |-> Static({}),
            B |-> [Stream({"A"}) EXCEPT !.start_row_id = 2]]]

\* the server is constructed on a store in which each table is absent, empty
\* or holds rows with any keys in any order
WarmupInit ==
    /\ config = WarmupConfig
    /\ \E ex \in [Tables -> BOOLEAN], ids \in [Tables -> StoredIdLists] :
         /\ store = [g \in Tables |->
                       [exists |-> ex[g],
                        rows |-> IF ex[g] THEN StoredRows(config, g, ids[g])
                                 ELSE <<>>]]
         /\ written = [g \in Tables |-> IF ex[g] THEN Range(ids[g]) ELSE {}]
    /\ Constructed

\* start() step 1 (lines 446-448) and nothing after it
WarmupNext ==
    /\ LoadExistingData
    /\ UNCHANGED <<timed_out, ppi, pp_orig, df, ticks, signalled, stop_returned>>
    /\ UNCHANGED fixed

WarmupSpec == WarmupInit /\ [][WarmupNext]_vars

(* ---- the resolver on configurations of any shape (ResolverSpec) -------*)

\* the calls a data expression may hold; X is a table the config does not
\* define
ResolverCalls ==
    [f : {"foreign_key", "copy_from_fk"}, parent : {"A", "B", "X"}]

\* the data expressions of one column
ResolverData == UNION {[1..n -> ResolverCalls] : n \in 0..MaxCalls}

\* a static table with one column holding this data expression
ResolverTable(cmd) ==
    [Table("disabled", TRUE, "replace", {cmd[i].parent : i \in DOMAIN cmd}, 1)
        EXCEPT !.columns = <<cmd>>]

\* two tables in either config order, each with any data expression
ResolverConfigs ==
    {[tables |-> o, t |-> [A |-> ResolverTable(d[1]), B |-> ResolverTable(d[2])]] :
        o \in {<<"A", "B">>, <<"B", "A">>}, d \in ResolverData \X ResolverData}

\* the constructor is about to call _order_generators
ResolverInit ==
    /\ config \in ResolverConfigs
    /\ \E k \in {0, MaxExisting} :
         /\ store = [g \in Tables |->
                       IF k = 0 THEN [exists |-> FALSE, rows |-> <<>>]
                       ELSE [exists |-> TRUE, rows |-> ExistingRows(config, g, k)]]
         /\ written = [g \in Tables |-> 1..k]
    /\ Fresh
    /\ generators = <<>>
    /\ mpc = "order" /\ mi = 0

\* line 333: self.generators = self._order_generators()
OrderStep ==
    /\ mpc = "order"
    /\ generators' \in OrderGenerators(config)
    /\ mpc' = "load" /\ mi' = 1
    /\ UNCHANGED <<bvars, config, store, primary_key_cache, parent_rows,
                   current_row_id, rows_per_tick, running, thread, cycle_barrier,
                   server_running, pc, ppi, pp_orig, df, ticks, outcomes,
                   failures, written, ever_cached, signalled, stop_returned>>

\* start() step 2 (lines 450-470)
StaticNext ==
    /\ GenerateStatic
    /\ UNCHANGED <<timed_out, ppi, pp_orig, df, ticks, signalled, stop_returned>>
    /\ UNCHANGED fixed

\* the constructor, then start() steps 1 and 2
ResolverNext ==
    \/ OrderStep
    \/ WarmupNext
    \/ StaticNext

ResolverSpec == ResolverInit /\ [][ResolverNext]_vars

\* the parents a table's data expressions really reference
TrueRefs(c) == [g \in Range(c.tables) |-> c.t[g].refs]

RECURSIVE Closure(_, _)
Closure(refs, S) ==
    LET T == S \cup UNION {refs[x] : x \in S \cap DOMAIN refs}
    IN  IF T = S THEN S ELSE Closure(refs, T)

\* a table reaches itself along the references
Cyclic(refs) == \E g \in DOMAIN refs : g \in Closure(refs, refs[g])

\* position of table g in the generator list
Pos(g) == CHOOSE i \in DOMAIN generators : generators[i] = g

(* ---- claims about the server ------------------------------------------*)

Refs(g) == config.t[g].refs

\* the rows a step adds to the store of table c
NewRows(c) ==
    {store'[c].rows[i] :
        i \in {j \in DOMAIN store'[c].rows :
                  j \notin DOMAIN store[c].rows \/ store[c].rows[j] # store'[c].rows[j]}}

\* C4: every foreign key of every child row in the store is the primary key
\* of a row that was written to the parent's table in the store.
ForeignKeysInStore ==
    \A c \in Tables : \A i \in DOMAIN store[c].rows : \A p \in Refs(c) :
        store[c].rows[i].fk[p] \in written[p]

\* C5: every row a step adds to a child table's store carries, for each
\* referenced parent P, a key that was in the PK index of P before that step.
ForeignKeysFromCache ==
    [][\A c \in Tables : \A r \in NewRows(c) : \A p \in Refs(c) :
            r.fk[p] \in ever_cached[p]]_vars

\* C5 witness: a batch of a table with a parent has been written
ChildBatchWritten ==
    \E c \in Tables : Refs(c) # {} /\ outcomes[c] = "ok" /\ ticks[c] > 0

\* C6: when the first run_loop tick of a streaming worker with parents
\* begins, every parent has at least one PK in primary_key_cache.
TopologicalStartup ==
    \A t \in Tables :
        (IsStreaming(t) /\ pc[t] = "synth" /\ ticks[t] = 1)
            => \A p \in Refs(t) : /\ p \in DOMAIN primary_key_cache
                                  /\ primary_key_cache[p] # <<>>

\* a run_loop tick of worker t ends in this step
TickEnds(t) == pc[t] \in {"synth", "append"} /\ pc'[t] \notin {"synth", "append"}

\* C7 as stated: current_row_id is strictly larger at the end of every tick
\* than it was at the end of the tick before, failed ticks included.
MonotonicRowIds ==
    [][\A t \in Tables : TickEnds(t) => current_row_id'[t] > current_row_id[t]]_vars

\* C7 amended: across a tick current_row_id never decreases; it is strictly
\* larger after a tick whose synthesize and append succeeded and unchanged
\* after a tick in which one of them failed.
RowIdsNeverDecrease ==
    [][\A t \in Tables :
          TickEnds(t) =>
              /\ current_row_id'[t] >= current_row_id[t]
              /\ outcomes'[t] = "ok" => current_row_id'[t] > current_row_id[t]
              /\ outcomes'[t] # "ok" => current_row_id'[t] = current_row_id[t]]_vars

\* C7 witness: a worker's first tick failed and its second tick succeeded,
\* so its counter stands one batch above its start
FailedThenSucceeded ==
    \E t \in Tables :
        /\ IsStreaming(t) /\ ticks[t] = 2 /\ outcomes[t] = "ok"
        /\ pc[t] = "barrier"
        /\ current_row_id[t] = StartRowId(t) + rows_per_tick[t]
        /\ Len(store[t].rows) = rows_per_tick[t]

\* C8: a tick whose synthesize or append step raises still takes its worker
\* to the barrier, leaves the worker running, and changes nothing of any
\* peer: not its position, its row counter, its store, nor the barrier.
TickFailureIsolated ==
    [][\A t \in Tables :
          (TickEnds(t) /\ outcomes'[t] # "ok") =>
              /\ pc'[t] = "barrier"
              /\ running' = running
              /\ barrier' = barrier
              /\ \A u \in Tables \ {t} :
                    /\ pc'[u] = pc[u]
                    /\ current_row_id'[u] = current_row_id[u]
                    /\ store'[u] = store[u]
                    /\ ticks'[u] = ticks[u]]_vars

\* C8 witness: after a failed first tick the worker is at the barrier of its
\* second cycle with a successful second tick, while a peer is alive
NextTickSucceeded ==
    \E t \in Tables :
        /\ IsStreaming(t) /\ ticks[t] = 2 /\ outcomes[t] = "ok"
        /\ pc[t] = "barrier"
        /\ current_row_id[t] = StartRowId(t) + rows_per_tick[t]
        /\ \E u \in Tables \ {t} : pc[u] \notin {"none", "exited"}

\* C9: once a stop() that stopped the workers has returned, no step writes
\* to the table store.
NoWriteAfterStop == [][stop_returned => store' = store]_vars

\* C10: a signal delivered at any point is followed by a stop: the main loop
\* exits and the running flag of every started worker is clear.
SignalLeadsToStop ==
    signalled ~> (mpc = "exited" /\ \A g \in Tables : thread[g] => ~running[g])

\* C11: a stop call (from the signal handler or from the main loop) on a
\* running server clears the server's running flag and the running flag of
\* every started worker; a stop call on a server that is not running changes
\* neither the server's flag nor any worker's flag.
StopIdempotent ==
    [][(Signal \/ MainExit) =>
          IF server_running
          THEN /\ ~server_running'
               /\ \A g \in Tables : thread[g] => ~running'[g]
          ELSE /\ server_running' = server_running
               /\ running' = running
               /\ stop_returned' = stop_returned]_vars

\* C11 witness: a signal stopped the running server and its workers, and the
\* main loop has called stop again on its way out
StoppedTwice ==
    /\ mpc = "exited" /\ signalled /\ stop_returned /\ ~server_running
    /\ \E g \in Tables : thread[g] /\ ~running[g]

\* C12: when load_existing_data reads at least one row of a table, then after
\* it the PK index of the table is the list of stored primary keys in store
\* order, parent_rows holds exactly one entry per stored key (the row with
\* that key), and current_row_id is the largest stored key plus one.
WarmupAgrees ==
    [][\A g \in Tables :
          (/\ mpc = "load" /\ generators[mi] = g
           /\ store[g].exists /\ store[g].rows # <<>>
           /\ failures' = failures /\ <<mpc, mi>>' # <<mpc, mi>>)
          => /\ g \in DOMAIN primary_key_cache'
             /\ primary_key_cache'[g] =
                    [i \in DOMAIN store[g].rows |-> store[g].rows[i].id]
             /\ g \in DOMAIN parent_rows'
             /\ DOMAIN parent_rows'[g] = Ids(store[g].rows)
             /\ \A k \in Ids(store[g].rows) : parent_rows'[g][k].id = k
             /\ \A k \in Ids(store[g].rows) : current_row_id'[g] > k
             /\ current_row_id'[g] - 1 \in Ids(store[g].rows)]_vars

\* C12 witness: warm-up has loaded a table stored as keys 3, 1 (out of
\* order, with a gap) and continues at key 4
LoadedUnordered ==
    /\ mpc = "load" /\ mi = 2
    /\ LET g == generators[1]
       IN  /\ Len(store[g].rows) = 2
           /\ store[g].rows[1].id = 3 /\ store[g].rows[2].id = 1
           /\ g \in DOMAIN primary_key_cache
           /\ primary_key_cache[g] = <<3, 1>>
           /\ current_row_id[g] = 4

\* C13: for every configuration whose foreign_key / copy_from_fk reference
\* graph is acyclic, the generator list holds each configured table exactly
\* once and every configured parent stands before each of its children.
DependencyOrder ==
    (mpc # "order" /\ ~Cyclic(TrueRefs(config)))
        => /\ Len(generators) = Cardinality(Tables)
           /\ Range(generators) = Tables
           /\ \A c \in Tables : \A p \in Refs(c) \cap Tables : Pos(p) < Pos(c)

\* C14: when the reference graph contains a cycle (a table referencing itself
\* included), _topological_sort raises and names at least one unresolved
\* table, the generator list is the configured tables in configuration
\* order, and warm-up has visited every table when step 1 is over.
CyclicNotFatal ==
    (mpc # "order" /\ Cyclic(TrueRefs(config)))
        => LET deps == ExtractDependencies(config)
           IN  /\ TopologicalSort(deps) = {}
               /\ \A o \in KahnOrders(deps) : Unresolved(deps, o) # {}
               /\ generators = config.tables
               /\ mpc = "static" =>
                     /\ Range(generators) = Tables
                     /\ (store["A"].exists /\ failures = 0) =>
                            DOMAIN primary_key_cache = Tables

\* C15: only a table with update policy append and cadence enabled ever has a
\* worker thread or a position in run_loop, and once step 5 of start() is
\* over every such table has its thread.
StartPredicate ==
    \A g \in Tables :
        /\ (thread[g] \/ running[g] \/ pc[g] # "none")
              => (Policy(g) = "append" /\ Enabled(g))
        /\ (mpc \in {"mark", "idle"} /\ Policy(g) = "append" /\ Enabled(g))
              => (thread[g] /\ pc[g] # "none")

\* C15 witness: the server is running, an append table has ticked in its
\* thread, and the tables of the other kinds (post-process, cadence off,
\* static) have no thread
OnlyAppendTablesRun ==
    /\ mpc = "idle"
    /\ \E g \in Tables : thread[g] /\ ticks[g] > 0
    /\ \E g \in Tables : ~thread[g] /\ Policy(g) = "postprocess"

\* the PK list of table g in a cache, empty when the table has no entry
KeysOf(cache, g) == IF g \in DOMAIN cache THEN cache[g] ELSE <<>>

\* C16: a step that writes the store of a table with policy disabled, ends a
\* batch call for it or (after warm-up) changes its PK list is the static
\* generation of startup step 2 for that table, the first batch call for it,
\* taken while no worker thread has been started.
StaticOnce ==
    [][\A g \in Tables :
          (/\ Policy(g) = "disabled"
           /\ \/ store'[g] # store[g]
              \/ outcomes'[g] # outcomes[g]
              \/ /\ mpc # "load"
                 /\ KeysOf(primary_key_cache', g) # KeysOf(primary_key_cache, g))
          => /\ mpc = "static" /\ generators[mi] = g
             /\ outcomes[g] = "none"
             /\ \A h \in Tables : ~thread[h] /\ pc[h] = "none"]_vars

\* C16 witness: a static table was generated at startup and a full cycle of
\* the workers, with its executor run, has passed since
StaticThenCycle ==
    /\ \E g \in Tables : Policy(g) = "disabled" /\ outcomes[g] = "ok"
    /\ barrier.cycle_number > 0
    /\ \E h \in Tables : pc[h] = "loop" /\ ticks[h] > 0

\* C18: the step in which the executor writes the regenerated rows of a
\* replace-mode post-process table leaves in the table's store exactly the
\* rows of that run: row_count rows with the keys start_row_id,
\* start_row_id + 1, ..., and leaves current_row_id at start_row_id.
PostprocessReplace ==
    [][\A g \in Tables :
          (/\ Policy(g) = "postprocess" /\ Mode(g) = "replace"
           /\ store'[g] # store[g] /\ store'[g].rows # <<>>)
          => /\ store'[g].rows = df[g]
             /\ Len(store'[g].rows) = config.t[g].row_count
             /\ \A i \in DOMAIN store'[g].rows :
                    store'[g].rows[i].id = StartRowId(g) + i - 1
             /\ current_row_id'[g] = StartRowId(g)
             /\ rows_per_tick'[g] = RowsPerTick(config.t[g].rows_per_minute)]_vars

\* C18 witness: the executor has run twice and regenerated a replace-mode
\* table successfully in its second run
ReplacedTwice ==
    /\ barrier.cycle_number = 2
    /\ \E t \in Tables : pc[t] = "loop" /\ ppi[t] > Len(postprocess_tables)
    /\ \E g \in Tables :
          /\ Policy(g) = "postprocess" /\ Mode(g) = "replace"
          /\ outcomes[g] = "ok"
          /\ Len(store[g].rows) = config.t[g].row_count
          /\ current_row_id[g] = StartRowId(g)

\* the leader thread t is inside execute_postprocess_tables
InExecutor(t) == pc[t] \in {"pp", "pp_synth", "pp_append"}

\* C19: a step in which the processing of one post-process table fails (in
\* the clean-up, the row_count resolution, the synthesize or the append step)
\* takes the leader to the next table of the run; the leader leaves the
\* executor only when every post-process table has had its turn, and it
\* leaves into its loop with its running flag untouched.
PostprocessIsolation ==
    [][\A t \in Tables :
          InExecutor(t) =>
              /\ running'[t] = running[t] \/ stop_returned'
              /\ pc'[t] \in {"pp", "pp_synth", "pp_append", "loop"}
              /\ pc'[t] = "loop" => ppi[t] > Len(postprocess_tables)
              /\ ppi'[t] \in {ppi[t], ppi[t] + 1}
              /\ (\/ /\ pc[t] = "pp" /\ failures' # failures
                     /\ <<pc[t], ppi[t]>>' # <<pc[t], ppi[t]>>
                  \/ pc[t] = "pp_synth" /\ pc'[t] \notin {"pp_synth", "pp_append"}
                  \/ /\ pc[t] = "pp_append" /\ pc'[t] # "pp_append"
                     /\ outcomes'[postprocess_tables[ppi[t]]] # "ok")
                    => /\ pc'[t] = "pp"
                       /\ ppi'[t] = ppi[t] + 1
                       /\ outcomes'[postprocess_tables[ppi[t]]]
                              \notin {"ok", "none"}]_vars

\* C19 witness: in the first executor run the first post-process table
\* failed and the second one was regenerated
SecondTableProcessed ==
    /\ Len(postprocess_tables) = 2
    /\ barrier.cycle_number = 1
    /\ outcomes[postprocess_tables[1]] \notin {"ok", "none"}
    /\ outcomes[postprocess_tables[2]] = "ok"
    /\ store[postprocess_tables[2]].rows # <<>>
    /\ \E t \in Tables : pc[t] = "loop" /\ ppi[t] = 3

\* C20: every step that calls generate_table for a table with parents - the
\* synthesize step of a tick, of a post-process regeneration, of the static
\* generation or of the seed batch - starts in a state where every parent of
\* the table has a non-empty PK list in primary_key_cache.
GenerationGuard ==
    [][LET ParentsCached(g) ==
               \A p \in Refs(g) : KeysOf(primary_key_cache, p) # <<>>
       IN  /\ \A t \in Tables :
                /\ (pc[t] = "synth" /\ pc'[t] # "synth") => ParentsCached(t)
                /\ (pc[t] = "pp_synth" /\ pc'[t] # "pp_synth")
                      => ParentsCached(postprocess_tables[ppi[t]])
           /\ (/\ mpc \in {"static", "seed"}
               /\ outcomes'[generators[mi]] # outcomes[generators[mi]])
                  => ParentsCached(generators[mi])]_vars

\* C21: the counter is set to 0 without a leader being elected only by a
\* thread whose condition wait timed out; a thread woken by the leader's
\* notify_all returns False and leaves the barrier as it found it, so an
\* arrival counted for the next cycle is never erased.
ResetOnlyOnTimeout ==
    [][/\ \A t \in HThreads :
            (hpc[t] = "notified" /\ hpc'[t] = "idle") => barrier' = barrier
       /\ (/\ barrier'.counter < barrier.counter
           /\ barrier'.cycle_number = barrier.cycle_number)
              => \E t \in HThreads : hpc[t] = "timedout" /\ hpc'[t] = "idle"]_vars

\* C22: after the timeout of a degraded cycle has reset the counter, with all
\* N workers ticking and calling wait() again, a leader is eventually
\* elected: cycle_number, still 0 at the reset, becomes positive.
RecoveryAfterDegraded ==
    (timed_out /\ barrier.cycle_number = 0) ~> (barrier.cycle_number > 0)

\* C23: every call of wait() eventually returns, by the last arrival's
\* notify_all or by the timeout, also when some thread of the cohort never
\* calls wait().
WaitReturns ==
    \A t \in 1..MaxThreads :
        (t \in HThreads /\ hpc[t] # "idle") ~> (t \in HThreads /\ hpc[t] = "idle")

\* C23 witness: in a cohort of two, one thread never called wait() and both
\* calls of the other have returned False after a timeout
ReturnedWithoutPeer ==
    /\ barrier.num_threads = 2 /\ timed_out
    /\ \E t, u \in HThreads :
          /\ calls[u] = 0
          /\ calls[t] = 2 /\ hpc[t] = "idle" /\ results[t] = <<FALSE, FALSE>>

\* C24: a worker enters execute_postprocess_tables only in the step in which
\* its own wait() call returns leader (cycle_number grows by one in that very
\* step), starting with the first post-process table; every step that
\* increases cycle_number takes exactly one worker into the executor; a
\* worker that blocked in condition.wait never enters it on return. So the
\* executor runs begun and the values of cycle_number correspond one to one.
TriggeredByLeader ==
    [][LET Enters(t) == ~InExecutor(t) /\ pc'[t] \in {"pp", "pp_synth", "pp_append"}
       IN  /\ \A t \in Tables :
                 Enters(t) =>
                    /\ pc[t] = "barrier" /\ pc'[t] = "pp" /\ ppi'[t] = 1
                    /\ barrier'.cycle_number = barrier.cycle_number + 1
                    /\ \A u \in Tables \ {t} : ~Enters(u)
           /\ barrier'.cycle_number # barrier.cycle_number
                 => \E t \in Tables : Enters(t)]_vars

\* C24 witness: of two workers the last to arrive is in the executor and the
\* other, woken by it, has returned from wait() to its loop
LeaderRunsFollowerLoops ==
    /\ mpc = "idle" /\ barrier.num_threads = 2 /\ barrier.cycle_number = 1
    /\ \E t, u \in Tables :
          /\ InExecutor(t)
          /\ pc[u] = "loop" /\ ticks[u] = 1 /\ cycle_barrier[u]

\* C25: in the step that begins an executor run every streaming worker has
\* returned from generate_and_append_batch in the current cycle and is inside
\* wait(): the leader arrives in this step, every other worker is blocked in
\* condition.wait or queueing for the mutex after a timeout, no batch is in
\* flight, and each worker has begun at least as many ticks as executor runs
\* have begun. The run does not hold the followers: while a leader is in the
\* executor a woken follower can return from wait().
PostprocessAfterCycle ==
    [][/\ \A t \in Tables :
            (~InExecutor(t) /\ pc'[t] \in {"pp", "pp_synth", "pp_append"}) =>
               /\ pc[t] = "barrier"
               /\ \A u \in streaming_gens \ {t} : pc[u] \in {"waiting", "timedout"}
               /\ \A u \in streaming_gens :
                     /\ df[u] = <<>>
                     /\ outcomes[u] # "none"
                     /\ ticks[u] >= barrier'.cycle_number
       /\ \A t, u \in Tables :
            (InExecutor(t) /\ pc[u] \in {"notified", "timedout"} /\ Alive(u))
               => ENABLED WaitReturn(u)]_vars

\* C25 witness: the leader is still in the executor, about to regenerate a
\* post-process table, while the follower it woke has begun its next tick
FollowerTicksDuringRun ==
    /\ barrier.num_threads = 2 /\ barrier.cycle_number = 1
    /\ \E t, u \in Tables :
          /\ pc[t] = "pp_synth"
          /\ pc[u] = "synth" /\ ticks[u] = 2

\* C26: once a StreamingServer.stop that stopped the workers has returned, no
\* worker begins a new iteration of run_loop (a new call of
\* generate_and_append_batch); a tick in flight may still finish.
NoTickAfterStop ==
    [][stop_returned => ticks' = ticks]_vars

\* C26 witness: stop has returned; one worker has found its flag cleared at the
\* loop head and left run_loop, another is still in the tick it had begun
StoppedMidTick ==
    /\ stop_returned
    /\ \E t, u \in Tables :
          /\ pc[t] = "exited" /\ ticks[t] >= 1
          /\ pc[u] = "append"

\* C27: every started worker thread belongs to a streaming table and holds
\* the barrier; while any thread exists the barrier is sized to the streaming
\* tables, and once step 5 has started the threads num_threads equals the
\* number of threads started; only a started streaming worker is ever at or
\* inside wait().
CohortSize ==
    LET started == {g \in Tables : thread[g]}
    IN  /\ \A g \in started : cycle_barrier[g] /\ IsStreaming(g)
        /\ started # {} => barrier.num_threads = Cardinality(streaming_gens)
        /\ mpc \in {"mark", "idle", "exited"}
              => barrier.num_threads = Cardinality(started)
        /\ \A g \in Tables :
              pc[g] \in {"barrier", "waiting", "notified", "timedout"}
                 => g \in started /\ IsStreaming(g)

\* C27 witness: the server runs two workers beside a post-process table that
\* has no thread; one worker is blocked in wait(), the other at the barrier
TwoOfThreeInCohort ==
    /\ mpc = "idle" /\ barrier.num_threads = 2
    /\ Cardinality({g \in Tables : thread[g]}) = 2
    /\ \E g \in Tables : ~thread[g] /\ Policy(g) = "postprocess"
    /\ \E t, u \in Tables : pc[t] = "waiting" /\ pc[u] = "barrier"

\* C28: start() runs its phases in order and each to completion. During
\* warm-up nothing has been generated; no seed batch is made before the
\* static phase is over; no thread exists before the seed phase is over; when
\* the static phase begins every stored table that could be read is in the
\* cache; when the seed phase begins every disabled table without parents
\* has been generated; when a thread exists every parentless
\* streaming table is cached or has had its seed batch; the server is marked
\* running only with all worker threads started.
StartupOrder ==
    LET started == {g \in Tables : thread[g]}
        batched == {g \in Tables : outcomes[g] # "none"}
    IN  /\ mpc = "load" => batched = {}
        /\ mpc \in {"load", "static", "barrier"} => batched \cap streaming_gens = {}
        /\ mpc \in {"load", "static", "barrier", "seed"}
              => started = {} /\ \A g \in Tables : pc[g] = "none"
        /\ (mpc = "static" /\ failures = 0)
              => \A g \in Tables :
                    store[g].rows # <<>> => g \in DOMAIN primary_key_cache
        /\ mpc = "seed"
              => \A g \in Tables :
                    (Policy(g) = "disabled" /\ ExtractDependencies(config)[g] = {})
                       => g \in batched
        /\ started # {}
              => \A g \in streaming_gens :
                    ExtractDependencies(config)[g] = {}
                       => g \in batched \/ g \in DOMAIN primary_key_cache
        /\ mpc \in {"load", "static", "barrier", "seed", "start", "mark"}
              => ~server_running
        /\ server_running => started = streaming_gens

\* C28 witness: all phases are over and the server is marked running: a
\* static table is in the cache and a streaming worker has its thread and has
\* not begun a tick yet
RunningAfterWarmStart ==
    /\ server_running /\ mpc = "idle"
    /\ \E g, h \in Tables :
          /\ Policy(g) = "disabled" /\ g \in DOMAIN primary_key_cache
          /\ thread[h] /\ ticks[h] = 0

\* C29: a step of the loop of step 4 makes a batch call for its table if and only if
\* it is a streaming table that references no parent and has no entry in
\* primary_key_cache; it is the table's first batch call, no other table gets
\* one, and the step leaves the barrier alone; as long as no worker thread
\* exists the barrier counter is 0.
SeedTick ==
    [][/\ (mpc = "seed" /\ <<mpc, mi>>' # <<mpc, mi>>) =>
            LET g == generators[mi]
            IN  /\ (outcomes'[g] # outcomes[g])
                      <=> /\ Policy(g) = "append" /\ Enabled(g)
                          /\ Refs(g) = {}
                          /\ g \notin DOMAIN primary_key_cache
                /\ outcomes'[g] # outcomes[g] => outcomes[g] = "none"
                /\ \A h \in Tables \ {g} : outcomes'[h] = outcomes[h]
                /\ barrier' = barrier
       /\ (\A g \in Tables : ~thread'[g]) => barrier'.counter = 0]_vars

\* C29 witness: on an empty store the parent stream has been seeded and its
\* child has not, the barrier for the two is untouched, no thread runs yet
ParentSeededOnly ==
    /\ mpc = "start" /\ \A g \in Tables : ~thread[g]
    /\ barrier.num_threads = 2 /\ barrier.counter = 0
    /\ \E g, h \in streaming_gens :
          /\ outcomes[g] = "ok" /\ Refs(g) = {}
          /\ outcomes[h] = "none" /\ g \in Refs(h)

\* C30: past warm-up, while some parent a disabled or post-process table
\* references has no entry in primary_key_cache, no step makes a batch call
\* for the table or changes its store, its entries in the caches or its
\* current_row_id.
ParentPresenceGuard ==
    [][\A g \in Tables :
          (/\ mpc \notin {"order", "load"}
           /\ Policy(g) \in {"disabled", "postprocess"}
           /\ \E p \in Refs(g) : p \notin DOMAIN primary_key_cache)
             => /\ outcomes'[g] = outcomes[g]
                /\ store'[g] = store[g]
                /\ current_row_id'[g] = current_row_id[g]
                /\ KeysOf(primary_key_cache', g) = KeysOf(primary_key_cache, g)
                /\ (g \in DOMAIN primary_key_cache') = (g \in DOMAIN primary_key_cache)
                /\ (g \in DOMAIN parent_rows') = (g \in DOMAIN parent_rows)]_vars

\* C31: whenever the executor is at a post-process table, every post-process
\* table that this table references comes earlier in the run: it has been
\* dealt with before the child is regenerated.
PostprocessOrder ==
    \A t \in Tables :
        (InExecutor(t) /\ ppi[t] \in 1..Len(postprocess_tables)) =>
            \A j \in 1..Len(postprocess_tables) :
                postprocess_tables[j] \in Refs(postprocess_tables[ppi[t]])
                    => j < ppi[t]

(* ---- the row count of a post-process run ------------------------------*)

\* a stream A whose ticks trigger the regeneration of B, a post-process table
\* without foreign keys; B's row_count is an integer, an expression that
\* evaluates, or an expression whose evaluation raises
RowCountConfigs ==
    { [tables |-> <<"A", "B">>,
       t |-> [A |-> Stream({}),
              B |-> [Post(mode, {}) EXCEPT !.row_count_kind = kind,
                                           !.row_count = n]]] :
        mode \in {"replace", "append"}, kind \in {"int", "expr", "error"},
        n \in 1..2 }

RowCountInit ==
    /\ config \in RowCountConfigs
    /\ \E k \in {0, MaxExisting} :
         /\ store = [g \in Tables |->
                       IF k = 0 THEN [exists |-> FALSE, rows |-> <<>>]
                       ELSE [exists |-> TRUE, rows |-> ExistingRows(config, g, k)]]
         /\ written = [g \in Tables |-> 1..k]
    /\ Constructed

RowCountSpec == RowCountInit /\ [][Next]_vars

\* C32: the step of the executor that resolves the row count of table g
\* sets the batch size to 100 when row_count is an expression whose
\* evaluation raises, and to the integer itself when row_count is an integer;
\* the evaluation failure alone does not skip the table (the step goes on to
\* the regeneration unless a parent is missing or another call raises), and
\* the batch that is then appended has that many rows.
RowCountFallback ==
    [][\A t \in Tables :
         LET g  == postprocess_tables[ppi[t]]
             tc == config.t[g]
         IN  /\ (pc[t] = "pp" /\ pc'[t] = "pp_synth") =>
                   /\ tc.row_count_kind = "error" => rows_per_tick'[g] = 100
                   /\ tc.row_count_kind = "int" =>
                          rows_per_tick'[g] = tc.row_count
             /\ (/\ pc[t] = "pp" /\ pc'[t] # "pp"
                 /\ ppi[t] \in 1..Len(postprocess_tables)
                 /\ tc.row_count_kind = "error"
                 /\ MissingDeps(g) = {}
                 /\ failures' = failures) => pc'[t] = "pp_synth"
             /\ (/\ pc[t] = "pp_append" /\ pc'[t] # "pp_append"
                 /\ failures' = failures
                 /\ tc.row_count_kind = "error") =>
                   Len(store'[g].rows) = Len(store[g].rows) + 100]_vars

\* a table whose row_count could not be evaluated holds the 100 rows of a
\* successful regeneration
FallbackRegenerated ==
    \E g \in Tables :
        /\ config.t[g].row_count_kind = "error"
        /\ outcomes[g] = "ok"
        /\ Len(store[g].rows) >= 100

\* C33: a generator's rows_per_tick is the value derived from its cadence,
\* max(1, floor(rows_per_minute * 10 / 60)), in every state in which the
\* executor is not in the middle of regenerating that table: the static
\* generation of startup and every post-process run, failed or not, have
\* put the value back.
BatchSizeRestored ==
    \A g \in Tables :
        (\A t \in Tables :
            ~(/\ pc[t] \in {"pp_synth", "pp_append"}
              /\ postprocess_tables[ppi[t]] = g)) =>
            rows_per_tick[g] = RowsPerTick(config.t[g].rows_per_minute)

\* a post-process run of g whose batch failed is over, and g's row_count
\* differs from its cadence-derived batch size
RestoredAfterFailure ==
    \E g \in Tables :
        /\ Policy(g) = "postprocess"
        /\ outcomes[g] \in {"synth_failed", "append_failed"}
        /\ config.t[g].row_count # RowsPerTick(config.t[g].rows_per_minute)
        /\ \A t \in Tables : pc[t] \notin {"pp_synth", "pp_append"}

\* the warm-up of table g ends in a failed read: the step of start() step 1
\* that injects an exception while generators[mi] = g
ReadFails(g) ==
    /\ mpc = "load" /\ mi \in 1..Len(generators) /\ generators[mi] = g
    /\ failures' = failures + 1

\* startup goes on after the warm-up of generators[mi]: with the next
\* table, or with step 2 after the last one
WarmupContinues ==
    IF mi < Len(generators) THEN mpc' = "load" /\ mi' = mi + 1
    ELSE mpc' = "static" /\ mi' = 1

\* C34 as stated: after a failed read the table has no entry in the PK index
\* or in parent rows, startup goes on, and current_row_id is 1.
WarmupFailureStartsAtOne ==
    [][\A g \in Tables :
         ReadFails(g) =>
            /\ WarmupContinues
            /\ g \notin DOMAIN primary_key_cache'
            /\ g \notin DOMAIN parent_rows'
            /\ current_row_id'[g] = 1]_vars

\* C34, amended: after a failed read the table has no entry in the PK index
\* or in parent rows, startup goes on, and current_row_id is the table's
\* start_row_id (1 when the configuration gives none).
WarmupFailureStartsFresh ==
    [][\A g \in Tables :
         ReadFails(g) =>
            /\ WarmupContinues
            /\ g \notin DOMAIN primary_key_cache'
            /\ g \notin DOMAIN parent_rows'
            /\ current_row_id'[g] = StartRowId(g)]_vars

\* startup is past step 1 after the read of a stored, non-empty table failed:
\* the table has rows in the store and none in the cache
FailedWarmupSkipped ==
    /\ failures = 1 /\ mpc = "static"
    /\ \E g \in Tables :
         /\ store[g].exists /\ store[g].rows # <<>>
         /\ g \notin DOMAIN primary_key_cache
         /\ current_row_id[g] = StartRowId(g)

\* the rows stored for g before the step are still stored after it, in the
\* same places
RowsKept(g) ==
    /\ Len(store'[g].rows) >= Len(store[g].rows)
    /\ \A i \in 1..Len(store[g].rows) : store'[g].rows[i] = store[g].rows[i]

\* the step is the replace-mode clean-up of the executor for table g
ReplaceStep(g) ==
    \E t \in Tables :
        /\ pc[t] = "pp" /\ ppi[t] \in 1..Len(postprocess_tables)
        /\ postprocess_tables[ppi[t]] = g /\ Mode(g) = "replace"

\* C35: every step keeps the rows stored for every table, unless it is the
\* replace-mode clean-up of a post-process run on that table; a step that
\* writes to a table whose directory exists adds the batch after the stored
\* rows, and a directory that exists keeps existing.
RowsNeverLost ==
    [][\A g \in Tables :
         /\ ~ReplaceStep(g) => RowsKept(g)
         /\ store[g].exists => store'[g].exists
         /\ (store[g].exists /\ store'[g] # store[g] /\ ~ReplaceStep(g)) =>
               Len(store'[g].rows) > Len(store[g].rows)]_vars

\* a streaming table that was found with rows at startup has had two more
\* batches appended by its worker
AppendedTwice ==
    \E g \in Tables :
        /\ Policy(g) = "append" /\ running[g]
        /\ Len(store[g].rows) >= MaxExisting + 2

\* the entries the cache holds for g before the step are still there after
\* it: the keys of the PK index in the same places, the rows of parent_rows
\* under the same keys
EntriesKept(g) ==
    /\ g \in DOMAIN primary_key_cache =>
          /\ g \in DOMAIN primary_key_cache'
          /\ Len(primary_key_cache'[g]) >= Len(primary_key_cache[g])
          /\ \A i \in 1..Len(primary_key_cache[g]) :
                primary_key_cache'[g][i] = primary_key_cache[g][i]
    /\ g \in DOMAIN parent_rows =>
          /\ g \in DOMAIN parent_rows'
          /\ DOMAIN parent_rows[g] \subseteq DOMAIN parent_rows'[g]

\* C36: every step keeps the cache entries of every table, unless it is the
\* replace-mode clean-up of a post-process run on that table: ticks, warm-up,
\* the seed tick, static generation, append-mode runs and stop remove
\* nothing, and a replace on one table leaves the entries of the others.
CacheShrinksOnReplace ==
    [][\A g \in Tables : ~ReplaceStep(g) => EntriesKept(g)]_vars

\* the executor has just dropped the entries of a replace-mode table that had
\* been cached, while another table is still cached
ReplacedOneTable ==
    \E t \in Tables :
        /\ pc[t] = "pp_synth"
        /\ LET g == postprocess_tables[ppi[t]]
           IN  /\ Mode(g) = "replace"
               /\ ever_cached[g] # {}
               /\ g \notin DOMAIN primary_key_cache
               /\ g \notin DOMAIN parent_rows
               /\ \E h \in Tables \ {g} :
                     h \in DOMAIN primary_key_cache /\ h \in DOMAIN parent_rows

\* C37: at most one thread is inside execute_postprocess_tables, and a
\* wait() returns leader only when no thread is inside it: the previous
\* leader has left the executor before the next one is elected.
PostprocessExclusive ==
    [][/\ Cardinality({t \in Tables : InExecutor(t)}) <= 1
       /\ \A t \in Tables :
            (pc[t] = "barrier" /\ pc'[t] = "pp") =>
                \A u \in Tables : ~InExecutor(u)]_vars

\* the leader is regenerating a table while a peer has finished its next tick
\* and is blocked in wait() again
PeerWaitsDuringRun ==
    \E t, u \in Tables :
        /\ t # u
        /\ pc[t] \in {"pp_synth", "pp_append"}
        /\ pc[u] = "waiting"
        /\ barrier.counter = 1

\* the test threads that are inside wait(): blocked in condition.wait, or
\* woken and about to return
InsideWait == {t \in HThreads : hpc[t] \in {"waiting", "notified", "timedout"}}

\* between two critical sections the counter is at most N - 1 and at most
\* the number of threads inside wait()
CounterInBounds ==
    /\ barrier.counter >= 0
    /\ barrier.counter <= barrier.num_threads - 1
    /\ barrier.counter <= Cardinality(InsideWait)

\* C38: the counter bounds hold whenever the mutex is free, and a call of
\* wait() returns leader only when every other thread of the N is inside
\* wait() as well.
CounterBounds ==
    [][/\ CounterInBounds /\ CounterInBounds'
       /\ \A t \in HThreads :
            (/\ Len(results'[t]) = Len(results[t]) + 1
             /\ results'[t][Len(results'[t])]) =>
                /\ Cardinality(HThreads) = barrier.num_threads
                /\ InsideWait = HThreads \ {t}]_vars

\* a barrier for more than one thread has just completed a round: the
\* leader is back, the counter is 0 and every other thread has been woken
RoundCompleted ==
    /\ barrier.num_threads > 1 /\ barrier.counter = 0
    /\ \E t \in HThreads :
         /\ hpc[t] = "idle" /\ results[t] # <<>>
         /\ results[t][Len(results[t])]
         /\ \A u \in HThreads \ {t} : hpc[u] = "notified"

\* C39: a tick of a worker that fails in generate_table or in the write
\* leaves current_row_id alone; a tick that succeeds writes the rows with
\* the ids current_row_id .. current_row_id + rows_per_tick - 1 and moves
\* current_row_id just past them; and once warm-up is over nothing else
\* changes the current_row_id of a streaming table, so the id ranges of
\* its successful batches follow one another without gap or overlap.
FailedTickKeepsCursor ==
    [][\A t \in Tables :
         /\ (TickEnds(t) /\ outcomes'[t] # "ok") =>
                current_row_id'[t] = current_row_id[t]
         /\ (TickEnds(t) /\ outcomes'[t] = "ok") =>
                /\ current_row_id'[t] = current_row_id[t] + rows_per_tick[t]
                /\ Ids(df[t]) = current_row_id[t] .. (current_row_id'[t] - 1)
                /\ store'[t].rows = store[t].rows \o df[t]
         /\ (/\ Policy(t) = "append" /\ mpc # "load"
             /\ current_row_id'[t] # current_row_id[t]) =>
                /\ outcomes'[t] = "ok"
                /\ current_row_id'[t] = current_row_id[t] + rows_per_tick[t]
                /\ Len(store'[t].rows) = Len(store[t].rows) + rows_per_tick[t]
                /\ \A i \in 1..rows_per_tick[t] :
                      store'[t].rows[Len(store[t].rows) + i].id =
                          current_row_id[t] + i - 1]_vars

\* a worker that started on an empty store has ended three ticks, one of
\* them failed: the store holds the rows of two batches with consecutive ids
TwoBatchesAfterFailure ==
    \E t \in Tables :
        /\ IsStreaming(t) /\ ticks[t] = 3 /\ failures = 1
        /\ pc[t] \notin {"synth", "append"}
        /\ Ids(store[t].rows) =
              StartRowId(t) .. (StartRowId(t) + 2 * rows_per_tick[t] - 1)
        /\ current_row_id[t] = StartRowId(t) + 2 * rows_per_tick[t]

(* ---- termination of the workers ---------------------------------------*)

\* the table names of the configurations
TableNames == UNION {Range(c.tables) : c \in Configs}

\* the steps of the thread of table t
WorkerStep(t) ==
    /\ Tick(t) \/ Rendezvous(t) \/ Postprocess(t)
    /\ UNCHANGED <<running, thread, cycle_barrier, server_running, mpc, mi,
                   signalled, stop_returned>>
    /\ UNCHANGED fixed

\* the configurations in which workers share a barrier and the leader has a
\* post-process table to regenerate
TerminationConfigs ==
    {c \in Configs :
        /\ Cardinality({g \in Range(c.tables) :
                /\ c.t[g].update_policy = "append" /\ c.t[g].enabled}) > 1
        /\ \E g \in Range(c.tables) : c.t[g].update_policy = "postprocess"}

TerminationInit == Init /\ config \in TerminationConfigs

\* every worker thread keeps being scheduled while the process lives: its
\* calls return and its condition.wait ends after timeout_seconds at the
\* latest; nothing is assumed of the main thread or of signals
WorkerFairSpec ==
    /\ TerminationInit /\ [][Next]_vars
    /\ \A t \in TableNames : WF_vars(WorkerStep(t))

\* the thread of t is gone: run_loop returned, or the process has exited
LeftRunLoop(t) == pc[t] = "exited" \/ mpc = "exited"

\* C40: once stop has cleared the running flag of a started worker, the
\* worker's thread leaves run_loop, wherever it was at that moment.
WorkersTerminate ==
    \A t \in TableNames :
        (t \in Tables /\ thread[t] /\ ~running[t])
            ~> (t \in Tables /\ LeftRunLoop(t))

\* a stopped worker is blocked in wait() while a peer has already left
\* run_loop and the process is alive: no arrival will complete the round
BlockedAfterPeersExited ==
    /\ mpc # "exited"
    /\ \E t, u \in Tables :
         /\ thread[t] /\ ~running[t] /\ pc[t] = "waiting"
         /\ pc[u] = "exited"

============================================================================
